---- MODULE Spec2Model ----
(***************************************************************************)
(* Model of the chat backend in src/main.py: the SQLite tables created by  *)
(* create_db, and the request handlers register, login, submit_push_token, *)
(* send_message_and_notify, get_chat_rooms, get_messages and get_demo.     *)
(*                                                                         *)
(* Every request runs on its own SQLite connection.  The chat_app.db file  *)
(* is shared by every server process that serves the application, so the   *)
(* statements of two requests interleave at statement granularity: each    *)
(* handler that issues a read followed by a write is modelled as one step  *)
(* per statement group, and a handler that only reads is one step.         *)
(* The requests in flight are a bag: which worker serves a request does    *)
(* not matter, only how many workers are busy.                             *)
(***************************************************************************)
EXTENDS Integers, Sequences, FiniteSets, Bags, TLC

\* ---------------------------------------------------------------- bounds
MaxMessages == 2
MaxTokenRows == 2
MaxUsers == 2
MaxClock == 1

\* two server workers, each serving one request at a time
Workers == {"w1", "w2"}

\* ---------------------------------------------------------------- inputs
RoomIdArgs == {1, 2, 99}
Senders == {<<1, "alice">>}
Bodies == {"hi"}
\* <<user_id, token>>: one token submitted by two users, and a second token
TokenArgs == {<<1, "t1">>, <<2, "t1">>, <<2, "t2">>}
\* <<username, password>>
RegisterArgs == {<<"alice", "pw">>}
LoginArgs == {<<"alice", "pw">>, <<"alice", "xx">>}
\* <<a, b>>
DemoArgs == {<<1, 2>>}

None == "None"

VARIABLES chat_rooms, users, push_tokens, messages, now, inflight, out

vars == <<chat_rooms, users, push_tokens, messages, now, inflight, out>>

db == <<chat_rooms, users, push_tokens, messages>>

\* ---------------------------------------------------------------- helpers
\* create_db: the three rooms seeded by INSERT OR IGNORE
SeedRooms ==
    << [id |-> 1, name |-> "General"],
       [id |-> 2, name |-> "Technology"],
       [id |-> 3, name |-> "Random"] >>

\* sha256(password).hexdigest(): an injective digest of the password
hash_password(password) == <<"sha256", password>>

unified_response(status, msg, data) ==
    [kind |-> "envelope", status |-> status, msg |-> msg, data |-> data]

\* an exception that escapes the handler: the framework answers 500
FatalResponse(error) == [kind |-> "fatal", error |-> error]

\* cursor.fetchone() after SELECT * FROM chat_rooms WHERE id = ?
RoomExists(room_id) == \E i \in 1..Len(chat_rooms) : chat_rooms[i].id = room_id

\* the local variable room before the SELECT
NoRoom == [id |-> 0, name |-> ""]

SelectRoom(room_id) ==
    IF RoomExists(room_id)
    THEN LET i == CHOOSE j \in 1..Len(chat_rooms) : chat_rooms[j].id = room_id
         IN  chat_rooms[i]
    ELSE NoRoom

\* SELECT * FROM push_tokens WHERE token = ?  (fetchone is truthy)
TokenExists(token) == \E i \in 1..Len(push_tokens) : push_tokens[i].token = token

\* SELECT token FROM push_tokens (fetchall, in rowid order)
SelectTokens == [i \in 1..Len(push_tokens) |-> push_tokens[i].token]

\* the insertion placing row m before the rows of equal timestamp
RECURSIVE InsertBeforeTies(_, _)
InsertBeforeTies(sorted, m) ==
    IF sorted = <<>> THEN <<m>>
    ELSE IF sorted[Len(sorted)].timestamp < m.timestamp
         THEN Append(sorted, m)
         ELSE Append(InsertBeforeTies(SubSeq(sorted, 1, Len(sorted) - 1), m),
                     sorted[Len(sorted)])

\* place row m after every row whose timestamp is <= m.timestamp
RECURSIVE InsertByTimestamp(_, _)
InsertByTimestamp(sorted, m) ==
    IF sorted = <<>> THEN <<m>>
    ELSE IF sorted[Len(sorted)].timestamp <= m.timestamp
         THEN Append(sorted, m)
         ELSE Append(InsertByTimestamp(SubSeq(sorted, 1, Len(sorted) - 1), m),
                     sorted[Len(sorted)])

\* ORDER BY timestamp DESC
RECURSIVE OrderByTimestampDesc(_)
OrderByTimestampDesc(rows) ==
    IF rows = <<>> THEN <<>>
    ELSE LET rest == OrderByTimestampDesc(SubSeq(rows, 1, Len(rows) - 1))
             m == rows[Len(rows)]
             older == SelectSeq(rest, LAMBDA r : r.timestamp >= m.timestamp)
             newer == SelectSeq(rest, LAMBDA r : r.timestamp < m.timestamp)
         IN  older \o <<m>> \o newer

\* ORDER BY timestamp ASC over a rowid-order scan (SQLite's sorter is stable)
RECURSIVE OrderByTimestamp(_)
OrderByTimestamp(rows) ==
    IF rows = <<>> THEN <<>>
    ELSE InsertByTimestamp(OrderByTimestamp(SubSeq(rows, 1, Len(rows) - 1)),
                           rows[Len(rows)])

\* the SELECT without its WHERE room_id = ? clause
InAnyRoom(room_id, rows) == rows

InRoom(room_id, rows) == SelectSeq(rows, LAMBDA m : m.room_id = room_id)

FormatMessage(m) ==
    [sender_id |-> m.sender_id, sender_name |-> m.sender_name,
     message |-> m.message, timestamp |-> m.timestamp]

\* the formatted_messages list of get_messages for an existing room
ListByRoom(room_id, rows) ==
    LET sorted == OrderByTimestamp(InRoom(room_id, rows))
    IN  [i \in 1..Len(sorted) |-> FormatMessage(sorted[i])]

NoLocals == [room |-> NoRoom, lastrowid |-> 0]

\* no response is waiting to be delivered
NoOutput == [op |-> "none"]

\* a request in flight: the statement it is about to run, its arguments and
\* the handler's local variables
InFlight(label, request, locals) == [pc |-> label, req |-> request, loc |-> locals]

\* the requests in flight that are about to run the statement at label
Pending(label) ==
    BagCardinality([r \in {x \in BagToSet(inflight) : x.pc = label} |-> inflight[r]])

\* a worker is free to take a request
Free == BagCardinality(inflight) < Cardinality(Workers)

\* ---------------------------------------------------------------- Init
Init ==
    /\ chat_rooms = SeedRooms
    /\ users = <<>>
    /\ push_tokens = <<>>
    /\ messages = <<>>
    /\ now = 0
    /\ inflight = EmptyBag
    /\ out = NoOutput

\* a plain INSERT that lets AUTOINCREMENT choose the id
InsertAlways(rows, row) == Append(rows, [id |-> Len(rows) + 1, name |-> row.name])

\* INSERT OR IGNORE INTO chat_rooms (id, name): the row is dropped when its
\* id (PRIMARY KEY) or its name (UNIQUE) is taken, else stored at its id
InsertOrIgnore(rows, row) ==
    IF \E i \in 1..Len(rows) : rows[i].id = row.id \/ rows[i].name = row.name
    THEN rows
    ELSE SelectSeq(rows, LAMBDA x : x.id < row.id) \o <<row>> \o
         SelectSeq(rows, LAMBDA x : x.id > row.id)

\* lines 33-72 and 75: a process starts and runs create_db on the existing
\* database; CREATE TABLE IF NOT EXISTS leaves every table as it is
create_db ==
    /\ out.op = "none"
    /\ chat_rooms' = InsertOrIgnore(InsertOrIgnore(InsertOrIgnore(chat_rooms,
                          SeedRooms[1]), SeedRooms[2]), SeedRooms[3])
    /\ UNCHANGED <<users, push_tokens, messages, now, inflight, out>>

\* the wall clock behind CURRENT_TIMESTAMP (one-second resolution)
Tick ==
    /\ out.op = "none"
    /\ now < MaxClock
    /\ now' = now + 1
    /\ UNCHANGED <<db, inflight, out>>

\* the framework hands the handler's result to the client
Deliver ==
    /\ out.op # "none"
    /\ out' = NoOutput
    /\ UNCHANGED <<db, now, inflight>>

\* what a finished request leaves behind: its response, the state of its
\* connection at the return (or raise), the push-service sends it made and
\* the id of the row it inserted into messages (0: none)
Output(request, response, connection, sent, lastrowid) ==
    [op |-> request.op, req |-> request, resp |-> response, conn |-> connection,
     sent |-> sent, lastrowid |-> lastrowid]

\* a handler answers in its first step
Answer(request, response, connection) ==
    /\ out' = Output(request, response, connection, <<>>, 0)
    /\ UNCHANGED inflight

\* a handler passes its first statement and stays in flight
Begin(label, request, locals) ==
    /\ inflight' = inflight (+) SetToBag({InFlight(label, request, locals)})
    /\ UNCHANGED out

\* the request r in flight moves on to the statement at label
Continue(r, label, locals) ==
    /\ inflight' = (inflight (-) SetToBag({r})) (+) SetToBag({InFlight(label, r.req, locals)})
    /\ UNCHANGED out

\* the request r in flight returns or raises
Finish(r, response, connection, sent) ==
    /\ out' = Output(r.req, response, connection, sent, r.loc.lastrowid)
    /\ inflight' = inflight (-) SetToBag({r})

\* ---------------------------------------------------------- register
\* SELECT * FROM users WHERE username = ?  (fetchone)
UserExists(username) == \E i \in 1..Len(users) : users[i].username = username

SelectUser(username) ==
    users[CHOOSE i \in 1..Len(users) : users[i].username = username]

UserRequest(op, arg) == [op |-> op, username |-> arg[1], password |-> arg[2]]

\* lines 110-116: connect, SELECT the user, early return when the name is taken
register_select ==
    /\ out.op = "none"
    /\ Free
    /\ \E arg \in RegisterArgs :
         IF UserExists(arg[1])
         THEN Answer(UserRequest("register", arg),
                     unified_response(1, "Username already exists", None), "open")
         ELSE /\ Len(users) + Pending("reg_insert") < MaxUsers
              /\ Begin("reg_insert", UserRequest("register", arg), NoLocals)
    /\ UNCHANGED <<db, now>>

\* lines 118-123: INSERT (username is UNIQUE), commit, close
register_insert(r) ==
    /\ out.op = "none"
    /\ r.pc = "reg_insert"
    /\ \E ok \in BOOLEAN :
         IF ~ok
         THEN /\ UNCHANGED users
              /\ Finish(r, FatalResponse("OperationalError"), "open", <<>>)
         ELSE IF UserExists(r.req.username)
         THEN /\ UNCHANGED users
              /\ Finish(r, FatalResponse("IntegrityError"), "open", <<>>)
         ELSE /\ users' = Append(users,
                     [id |-> Len(users) + 1, username |-> r.req.username,
                      password |-> hash_password(r.req.password)])
              /\ Finish(r, unified_response(0, "User registered successfully", None),
                        "closed", <<>>)
    /\ UNCHANGED <<chat_rooms, push_tokens, messages, now>>

\* ------------------------------------------------------------- login
\* lines 129-143: one SELECT; the failure return leaves the connection open
login ==
    /\ out.op = "none"
    /\ Free
    /\ \E arg \in LoginArgs :
         IF ~UserExists(arg[1])
            \/ SelectUser(arg[1]).password # hash_password(arg[2])
         THEN Answer(UserRequest("login", arg),
                     unified_response(1, "Invalid username or password", None), "open")
         ELSE Answer(UserRequest("login", arg),
                     unified_response(0, "Login successful",
                         [user_id |-> SelectUser(arg[1]).id,
                          username |-> SelectUser(arg[1]).username]),
                     "closed")
    /\ UNCHANGED <<db, now>>

\* ------------------------------------------------- submit_push_token
SubmitPushTokenRequest(user_id, token) ==
    [op |-> "submit_push_token", user_id |-> user_id, token |-> token]

\* submit_push_token_select without the check of line 154
submit_push_token_select_unchecked ==
    /\ out.op = "none"
    /\ Free
    /\ \E arg \in TokenArgs :
         /\ Len(push_tokens) + Pending("spt_insert") < MaxTokenRows
         /\ Begin("spt_insert", SubmitPushTokenRequest(arg[1], arg[2]), NoLocals)
    /\ UNCHANGED <<db, now>>

\* lines 149-155: connect, SELECT the token, early return when it exists
submit_push_token_select ==
    /\ out.op = "none"
    /\ Free
    /\ \E arg \in TokenArgs :
         IF TokenExists(arg[2])
         THEN Answer(SubmitPushTokenRequest(arg[1], arg[2]),
                     unified_response(0, "Token already exists", None), "open")
         ELSE /\ Len(push_tokens) + Pending("spt_insert") < MaxTokenRows
              /\ Begin("spt_insert", SubmitPushTokenRequest(arg[1], arg[2]), NoLocals)
    /\ UNCHANGED <<db, now>>

\* lines 157-161: INSERT, commit, close; a sqlite3 error escapes the handler
submit_push_token_insert(r) ==
    /\ out.op = "none"
    /\ r.pc = "spt_insert"
    /\ \E ok \in BOOLEAN :
         IF ok
         THEN /\ push_tokens' = Append(push_tokens,
                     [id |-> Len(push_tokens) + 1, user_id |-> r.req.user_id,
                      token |-> r.req.token])
              /\ Finish(r, unified_response(0, "Token stored successfully", None),
                        "closed", <<>>)
         ELSE /\ UNCHANGED push_tokens
              /\ Finish(r, FatalResponse("OperationalError"), "open", <<>>)
    /\ UNCHANGED <<chat_rooms, users, messages, now>>

\* --------------------------------------------- send_message_and_notify
\* one call of messaging.send: the messaging.Message it is given
\* (notification title and body, token) and whether it returns or raises
PushSend(room, request, token, delivered) ==
    [title |-> <<room.name, ": ", request.sender_name>>,
     body |-> request.message, token |-> token, delivered |-> delivered]

\* one pass of the loop body: the try branch or the except branch
Notification(token, delivered) ==
    IF delivered
    THEN [token |-> token, response |-> "receipt"]
    ELSE [token |-> token, error |-> "send failed"]

\* the loop without the try/except: the first send that raises ends it
RECURSIVE FanOutAbort(_, _, _, _)
FanOutAbort(room, request, tokens, delivered) ==
    IF tokens = <<>>
    THEN [notifications |-> <<>>, sent |-> <<>>]
    ELSE LET n == Len(tokens)
             before == FanOutAbort(room, request, SubSeq(tokens, 1, n - 1), delivered)
         IN  IF \E i \in 1..(n - 1) : ~delivered[i]
             THEN before
             ELSE [notifications |-> Append(before.notifications,
                                           Notification(tokens[n], delivered[n])),
                   sent |-> Append(before.sent,
                                   PushSend(room, request, tokens[n], delivered[n]))]

\* the for loop of lines 190-202 over the fetched rows, in order
RECURSIVE FanOut(_, _, _, _)
FanOut(room, request, tokens, delivered) ==
    IF tokens = <<>>
    THEN [notifications |-> <<>>, sent |-> <<>>]
    ELSE LET n == Len(tokens)
             before == FanOut(room, request, SubSeq(tokens, 1, n - 1), delivered)
         IN  [notifications |-> Append(before.notifications,
                                       Notification(tokens[n], delivered[n])),
              sent |-> Append(before.sent,
                              PushSend(room, request, tokens[n], delivered[n]))]

SendMessageRequest(room_id, sender, body) ==
    [op |-> "send_message_and_notify", room_id |-> room_id,
     sender_id |-> sender[1], sender_name |-> sender[2], message |-> body]

\* the row INSERT INTO messages adds: the next AUTOINCREMENT id and the
\* DEFAULT CURRENT_TIMESTAMP
\* the row stamped from a clock that runs backwards
NewMessageBackwards(request) ==
    [id |-> Len(messages) + 1, room_id |-> request.room_id,
     sender_id |-> request.sender_id, sender_name |-> request.sender_name,
     message |-> request.message, timestamp |-> MaxClock - now]

NewMessage(request) ==
    [id |-> Len(messages) + 1, room_id |-> request.room_id,
     sender_id |-> request.sender_id, sender_name |-> request.sender_name,
     message |-> request.message, timestamp |-> now]

\* send_message_and_notify_select without the check of line 173
send_message_and_notify_select_unchecked ==
    /\ out.op = "none"
    /\ Free
    /\ \E room_id \in RoomIdArgs, sender \in Senders, body \in Bodies :
         /\ Len(messages) + Pending("smn_insert") < MaxMessages
         /\ Begin("smn_insert", SendMessageRequest(room_id, sender, body),
                  [NoLocals EXCEPT !.room = SelectRoom(room_id)])
    /\ UNCHANGED <<db, now>>

\* lines 167-174: connect, SELECT the room, early return on an unknown room
send_message_and_notify_select ==
    /\ out.op = "none"
    /\ Free
    /\ \E room_id \in RoomIdArgs, sender \in Senders, body \in Bodies :
         IF ~RoomExists(room_id)
         THEN Answer(SendMessageRequest(room_id, sender, body),
                     unified_response(1, "Invalid room ID", None), "open")
         ELSE /\ Len(messages) + Pending("smn_insert") < MaxMessages
              /\ Begin("smn_insert", SendMessageRequest(room_id, sender, body),
                       [NoLocals EXCEPT !.room = SelectRoom(room_id)])
    /\ UNCHANGED <<db, now>>

\* the insert with the sqlite3 error caught and ignored
send_message_and_notify_insert_swallow(r) ==
    /\ out.op = "none"
    /\ r.pc = "smn_insert"
    /\ \E ok \in BOOLEAN :
         /\ messages' = IF ok THEN Append(messages, NewMessage(r.req)) ELSE messages
         /\ Continue(r, "smn_notify",
                     [r.loc EXCEPT !.lastrowid = IF ok THEN Len(messages) + 1 ELSE 0])
    /\ UNCHANGED <<chat_rooms, users, push_tokens, now>>

\* lines 176-181: INSERT INTO messages and commit; a sqlite3 error escapes
send_message_and_notify_insert(r) ==
    /\ out.op = "none"
    /\ r.pc = "smn_insert"
    /\ \E ok \in BOOLEAN :
         IF ok
         THEN /\ messages' = Append(messages, NewMessage(r.req))
              /\ Continue(r, "smn_notify", [r.loc EXCEPT !.lastrowid = Len(messages) + 1])
         ELSE /\ UNCHANGED messages
              /\ Finish(r, FatalResponse("OperationalError"), "open", <<>>)
    /\ UNCHANGED <<chat_rooms, users, push_tokens, now>>

\* the notification step undoing the insert when every send has failed
send_message_and_notify_notify_rollback(r) ==
    /\ out.op = "none"
    /\ r.pc = "smn_notify"
    /\ \E delivered \in [1..Len(SelectTokens) -> BOOLEAN] :
         LET done == FanOut(r.loc.room, r.req, SelectTokens, delivered)
             failed == SelectTokens # <<>> /\ \A i \in 1..Len(SelectTokens) : ~delivered[i]
         IN  /\ Finish(r, unified_response(0, "Message sent and notifications processed",
                                           [notifications |-> done.notifications]),
                       "closed", done.sent)
             /\ messages' = IF failed
                            THEN SelectSeq(messages, LAMBDA m : m.id # r.loc.lastrowid)
                            ELSE messages
    /\ UNCHANGED <<chat_rooms, users, push_tokens, now>>

\* the notification step answering status 1 when a send has failed
send_message_and_notify_notify_escalate(r) ==
    /\ out.op = "none"
    /\ r.pc = "smn_notify"
    /\ \E delivered \in [1..Len(SelectTokens) -> BOOLEAN] :
         LET done == FanOut(r.loc.room, r.req, SelectTokens, delivered)
             failed == \E i \in 1..Len(SelectTokens) : ~delivered[i]
         IN  Finish(r, unified_response(IF failed THEN 1 ELSE 0,
                                        "Message sent and notifications processed",
                                        [notifications |-> done.notifications]),
                    "closed", done.sent)
    /\ UNCHANGED <<db, now>>

\* the notification step with the SELECT of line 184, which leaves out the
\* rows of the sender
send_message_and_notify_notify_exclude_sender(r) ==
    /\ out.op = "none"
    /\ r.pc = "smn_notify"
    /\ LET others == SelectSeq(push_tokens, LAMBDA row : row.user_id # r.req.sender_id)
           tokens == [i \in 1..Len(others) |-> others[i].token]
       IN  \E delivered \in [1..Len(tokens) -> BOOLEAN] :
             LET done == FanOut(r.loc.room, r.req, tokens, delivered)
             IN  Finish(r, unified_response(0, "Message sent and notifications processed",
                                            [notifications |-> done.notifications]),
                        "closed", done.sent)
    /\ UNCHANGED <<db, now>>

\* lines 185-205: SELECT token FROM push_tokens, the notification loop over
\* the rows read (delivered[i] tells whether messaging.send returns or raises
\* for the i-th row), close and answer.  The loop touches no shared state.
send_message_and_notify_notify(r) ==
    /\ out.op = "none"
    /\ r.pc = "smn_notify"
    /\ \E delivered \in [1..Len(SelectTokens) -> BOOLEAN] :
         LET done == FanOut(r.loc.room, r.req, SelectTokens, delivered)
         IN  Finish(r, unified_response(0, "Message sent and notifications processed",
                                        [notifications |-> done.notifications]),
                    "closed", done.sent)
    /\ UNCHANGED <<db, now>>

\* ------------------------------------------------------ get_messages
\* get_messages removing the rows it has read
get_messages_consume ==
    /\ out.op = "none"
    /\ Free
    /\ \E room_id \in RoomIdArgs :
         LET request == [op |-> "get_messages", room_id |-> room_id]
         IN  IF ~RoomExists(room_id)
             THEN /\ Answer(request, unified_response(1, "Invalid room ID", None), "open")
                  /\ UNCHANGED messages
             ELSE /\ Answer(request,
                            unified_response(0,
                                <<"Messages retrieved successfully from ",
                                  SelectRoom(room_id).name>>,
                                ListByRoom(room_id, messages)),
                            "closed")
                  /\ messages' = SelectSeq(messages, LAMBDA m : m.room_id # room_id)
    /\ UNCHANGED <<chat_rooms, users, push_tokens, now>>

\* get_messages answering the failure for a room without messages
get_messages_empty_fails ==
    /\ out.op = "none"
    /\ Free
    /\ \E room_id \in RoomIdArgs :
         LET request == [op |-> "get_messages", room_id |-> room_id]
         IN  IF ~RoomExists(room_id) \/ ListByRoom(room_id, messages) = <<>>
             THEN Answer(request, unified_response(1, "Invalid room ID", None), "open")
             ELSE Answer(request,
                         unified_response(0,
                             <<"Messages retrieved successfully from ",
                               SelectRoom(room_id).name>>,
                             ListByRoom(room_id, messages)),
                         "closed")
    /\ UNCHANGED <<db, now>>

\* lines 225-248; the room table never changes between the two SELECTs
get_messages ==
    /\ out.op = "none"
    /\ Free
    /\ \E room_id \in RoomIdArgs :
         LET request == [op |-> "get_messages", room_id |-> room_id]
         IN  IF ~RoomExists(room_id)
             THEN Answer(request, unified_response(1, "Invalid room ID", None), "open")
             ELSE Answer(request,
                         unified_response(0,
                             <<"Messages retrieved successfully from ",
                               SelectRoom(room_id).name>>,
                             ListByRoom(room_id, messages)),
                         "closed")
    /\ UNCHANGED <<db, now>>

\* get_chat_rooms returning the list without the envelope
get_chat_rooms_bare ==
    /\ out.op = "none"
    /\ Free
    /\ Answer([op |-> "get_chat_rooms"],
              [kind |-> "json",
               rooms |-> [i \in 1..Len(chat_rooms) |->
                            [room_id |-> chat_rooms[i].id, name |-> chat_rooms[i].name]]],
              "closed")
    /\ UNCHANGED <<db, now>>

\* ---------------------------------------------------- get_chat_rooms
\* lines 210-220
get_chat_rooms ==
    /\ out.op = "none"
    /\ Free
    /\ IF chat_rooms = <<>>
       THEN Answer([op |-> "get_chat_rooms"],
                   unified_response(1, "No chat rooms found", None), "closed")
       ELSE Answer([op |-> "get_chat_rooms"],
                   unified_response(0, "Chat rooms retrieved successfully",
                       [i \in 1..Len(chat_rooms) |->
                          [room_id |-> chat_rooms[i].id, name |-> chat_rooms[i].name]]),
                   "closed")
    /\ UNCHANGED <<db, now>>

\* ---------------------------------------------------------- get_demo
\* JSONResponse(content={"sum": a + b, "date": date.today()}): no envelope
get_demo ==
    /\ out.op = "none"
    /\ Free
    /\ \E arg \in DemoArgs :
         Answer([op |-> "get_demo", a |-> arg[1], b |-> arg[2]],
                [kind |-> "json", sum |-> arg[1] + arg[2], date |-> now], "none")
    /\ UNCHANGED <<db, now>>

Next ==
    \/ Tick
    \/ create_db
    \/ Deliver
    \/ register_select
    \/ \E r \in BagToSet(inflight) : register_insert(r)
    \/ login
    \/ submit_push_token_select
    \/ \E r \in BagToSet(inflight) : submit_push_token_insert(r)
    \/ send_message_and_notify_select
    \/ \E r \in BagToSet(inflight) : send_message_and_notify_insert(r)
    \/ \E r \in BagToSet(inflight) : send_message_and_notify_notify(r)
    \/ get_messages
    \/ get_chat_rooms
    \/ get_demo

Spec == Init /\ [][Next]_vars

\* requests served strictly one after the other: a request starts only
\* when no other request is in flight
AllIdle == inflight = EmptyBag

SeqNext ==
    \/ Tick
    \/ create_db
    \/ create_db
    \/ Deliver
    \/ AllIdle /\ register_select
    \/ \E r \in BagToSet(inflight) : register_insert(r)
    \/ AllIdle /\ login
    \/ AllIdle /\ submit_push_token_select
    \/ \E r \in BagToSet(inflight) : submit_push_token_insert(r)
    \/ AllIdle /\ send_message_and_notify_select
    \/ \E r \in BagToSet(inflight) : send_message_and_notify_insert(r)
    \/ \E r \in BagToSet(inflight) : send_message_and_notify_notify(r)
    \/ AllIdle /\ get_messages
    \/ AllIdle /\ get_chat_rooms
    \/ AllIdle /\ get_demo

SeqSpec == Init /\ [][SeqNext]_vars

\* ======================================================== properties
RoomIds == {chat_rooms[i].id : i \in 1..Len(chat_rooms)}

IsSend == out.op = "send_message_and_notify"

\* the row a send_message_and_notify request inserted
Persisted(request, rowid) ==
    /\ rowid \in 1..Len(messages)
    /\ messages[rowid].id = rowid
    /\ messages[rowid].room_id = request.room_id
    /\ messages[rowid].sender_id = request.sender_id
    /\ messages[rowid].sender_name = request.sender_name
    /\ messages[rowid].message = request.message

\* C1: a submit whose room_id is not in the room directory answers the
\* InvalidRoom envelope (status 1), inserts no Message row and makes no
\* push-service send; no stored message and no request past the room check
\* names a room outside the directory.
C1_InvalidRoomRejected ==
    /\ \A i \in 1..Len(messages) : messages[i].room_id \in RoomIds
    /\ \A r \in BagToSet(inflight) :
         r.pc \in {"smn_insert", "smn_notify"} => r.req.room_id \in RoomIds
    /\ (IsSend /\ out.req.room_id \notin RoomIds) =>
         /\ out.resp.kind = "envelope"
         /\ out.resp.status = 1
         /\ out.resp.msg = "Invalid room ID"
         /\ out.sent = <<>>
         /\ out.lastrowid = 0

\* an InvalidRoom answer given while messages and tokens are stored
C1_Witness ==
    /\ IsSend
    /\ out.req.room_id \notin RoomIds
    /\ out.resp.status = 1
    /\ Len(messages) > 0
    /\ Len(push_tokens) > 0

RowsWithToken(token) == {i \in 1..Len(push_tokens) : push_tokens[i].token = token}

IsSubmitToken == out.op = "submit_push_token"

\* C3: with requests served one after the other, every submit_push_token
\* call the storage serves reports status 0, the first call for a token
\* value and every later one (same or another user_id), and afterwards
\* exactly one PushToken row holds that token value.
C3_SequentialRegistrationIdempotent ==
    /\ \A i, j \in 1..Len(push_tokens) :
          push_tokens[i].token = push_tokens[j].token => i = j
    /\ (IsSubmitToken /\ out.resp.kind = "envelope") =>
          /\ out.resp.status = 0
          /\ Cardinality(RowsWithToken(out.req.token)) = 1

\* the second registration of a token, by another user than the first
C3_Witness ==
    /\ IsSubmitToken
    /\ out.resp.kind = "envelope"
    /\ out.resp.msg = "Token already exists"
    /\ \E i \in RowsWithToken(out.req.token) : push_tokens[i].user_id # out.req.user_id

\* C4: under any interleaving of submit_push_token requests no two PushToken
\* rows hold the same token value, and no request crashes on a duplicate
\* (a uniqueness violation) instead of answering success.
C4_TokenUniqueUnderConcurrency ==
    /\ \A i, j \in 1..Len(push_tokens) :
          push_tokens[i].token = push_tokens[j].token => i = j
    /\ (IsSubmitToken /\ out.resp.kind = "fatal") => out.resp.error # "IntegrityError"
\* the notifications list of a send_message_and_notify success
Notifications == out.resp.data.notifications

\* a send_message_and_notify request that went through its fan-out
IsFanOut == IsSend /\ out.resp.kind = "envelope" /\ out.resp.msg # "Invalid room ID"

\* C5: a fan-out over the N token rows read from the registry answers success
\* with a notifications list of exactly N entries, the i-th carrying the i-th
\* token read and either a response or an error, whichever sends fail; with
\* N = 0 the list is empty.
C5_OneOutcomePerToken ==
    IsFanOut =>
        /\ out.resp.status = 0
        /\ Len(Notifications) = Len(push_tokens)
        /\ \A i \in 1..Len(push_tokens) :
              /\ Notifications[i].token = push_tokens[i].token
              /\ \/ DOMAIN Notifications[i] = {"token", "response"}
                 \/ DOMAIN Notifications[i] = {"token", "error"}

\* two different tokens, the first send failed and the second succeeded
C5_Witness ==
    /\ IsFanOut
    /\ Len(Notifications) = 2
    /\ Notifications[1].token # Notifications[2].token
    /\ DOMAIN Notifications[1] = {"token", "error"}
    /\ DOMAIN Notifications[2] = {"token", "response"}

\* C6: whatever the notification outcomes, and when every send fails, the
\* message the request inserted is still stored and listByRoom of its room
\* returns it.
C6_PersistedDespiteNotificationFailure ==
    /\ \A r \in BagToSet(inflight) :
         r.pc = "smn_notify" => Persisted(r.req, r.loc.lastrowid)
    /\ IsFanOut =>
          /\ Persisted(out.req, out.lastrowid)
          /\ \E i \in 1..Len(ListByRoom(out.req.room_id, messages)) :
                ListByRoom(out.req.room_id, messages)[i]
                    = FormatMessage(messages[out.lastrowid])

\* every send failed (two of them) and the message is stored
C6_Witness ==
    /\ IsFanOut
    /\ Len(out.sent) = 2
    /\ \A i \in 1..Len(out.sent) : ~out.sent[i].delivered
    /\ Persisted(out.req, out.lastrowid)

\* C7: push-service sends are made only for a message whose insert was
\* committed; a request whose insert fails with a storage error ends fatally
\* (no envelope) and has made no send.
C7_NotifyOnlyAfterCommit ==
    /\ (IsSend /\ out.sent # <<>>) => Persisted(out.req, out.lastrowid)
    /\ (IsSend /\ out.resp.kind = "fatal") =>
          /\ out.sent = <<>>
          /\ out.lastrowid = 0
    /\ (IsSend /\ out.req.room_id \in RoomIds /\ out.lastrowid = 0) =>
          out.resp.kind = "fatal"

\* the insert failed while tokens were registered: fatal, nothing sent
C7_Witness ==
    /\ IsSend
    /\ out.resp.kind = "fatal"
    /\ out.sent = <<>>
    /\ Len(push_tokens) = 2

\* C8: a submit whose message was persisted answers status 0 whatever subset
\* of the sends fails; every token read is attempted, and the outcome
\* recorded for a token is the outcome of its own send only.
C8_DeliveryFailuresNotEscalated ==
    (IsSend /\ out.lastrowid > 0) =>
        /\ out.resp.kind = "envelope"
        /\ out.resp.status = 0
        /\ Len(out.sent) = Len(push_tokens)
        /\ Len(Notifications) = Len(out.sent)
        /\ \A i \in 1..Len(out.sent) :
              /\ out.sent[i].token = push_tokens[i].token
              /\ Notifications[i].token = out.sent[i].token
              /\ out.sent[i].delivered <=> "response" \in DOMAIN Notifications[i]
              /\ ~out.sent[i].delivered <=> "error" \in DOMAIN Notifications[i]

\* the first send failed, the second was still attempted and succeeded
C8_Witness ==
    /\ IsSend
    /\ out.lastrowid > 0
    /\ out.resp.status = 0
    /\ Len(out.sent) = 2
    /\ ~out.sent[1].delivered
    /\ out.sent[2].delivered

\* C9: in one fan-out every registered token value receives exactly one
\* push-service send, in every reachable state of the registry.
C9_OneAttemptPerTokenValue ==
    IsFanOut =>
        \A i \in 1..Len(push_tokens) :
            Cardinality({k \in 1..Len(out.sent) :
                            out.sent[k].token = push_tokens[i].token}) = 1

\* messages of the envelope that report a failure
FailureMessages == {"Invalid room ID", "Username already exists",
                    "Invalid username or password", "No chat rooms found"}

\* C10 as stated: every response of every operation is the envelope
\* {status, msg, data} with status in {0, 1}.
C10_EveryResponseIsEnvelope ==
    out.op # "none" =>
        /\ out.resp.kind = "envelope"
        /\ out.resp.status \in {0, 1}

\* C10 amended: register, login, submit_push_token, send_message_and_notify,
\* get_chat_rooms and get_messages answer the envelope {status, msg, data}
\* on every return, with status 1 exactly for the reported failures and
\* status 0 otherwise; get_demo answers a bare {sum, date} object; a sqlite3
\* exception in a handler that writes surfaces as a fatal error.
C10_EnvelopeExceptDemoAndFatal ==
    out.op # "none" =>
        /\ out.op = "get_demo" <=> out.resp.kind = "json"
        /\ out.resp.kind \in {"envelope", "json", "fatal"}
        /\ out.resp.kind = "fatal" =>
              out.op \in {"register", "submit_push_token", "send_message_and_notify"}
        /\ out.resp.kind = "envelope" =>
              /\ DOMAIN out.resp = {"kind", "status", "msg", "data"}
              /\ out.resp.status \in {0, 1}
              /\ out.op # "get_messages" =>
                    (out.resp.status = 1 <=> out.resp.msg \in FailureMessages)
              /\ out.op = "get_messages" =>
                    (out.resp.status = 1 <=> out.req.room_id \notin RoomIds)

\* a reported failure: login with a wrong password for a registered user
C10_Witness ==
    /\ out.op = "login"
    /\ out.resp.kind = "envelope"
    /\ out.resp.status = 1
    /\ Len(users) = 1
\* the rows get_messages fetches for a room, in the order it fetches them
FetchedRows(room_id) == OrderByTimestamp(InRoom(room_id, messages))

C12_AppendsSerialized ==
    /\ \A i \in 1..Len(messages) : messages[i].id = i
    /\ \A i, j \in 1..Len(messages) :
          (i < j /\ messages[i].room_id = messages[j].room_id) =>
              messages[i].timestamp <= messages[j].timestamp
    /\ \A r \in BagToSet(inflight) :
          r.pc = "smn_notify" =>
              /\ Persisted(r.req, r.loc.lastrowid)
              /\ CopiesIn(r, inflight) = 1
    /\ IsFanOut =>
          /\ Persisted(out.req, out.lastrowid)
          /\ \A r \in BagToSet(inflight) :
                r.pc = "smn_notify" => r.loc.lastrowid # out.lastrowid

\* two submits to one room are both past their INSERT at the same time
C12_Witness ==
    \E r1, r2 \in BagToSet(inflight) :
        /\ r1.pc = "smn_notify" /\ r2.pc = "smn_notify"
        /\ r1.req.room_id = r2.req.room_id
        /\ r1.loc.lastrowid = 1 /\ r2.loc.lastrowid = 2
IsGetMessages == out.op = "get_messages"

\* C13: get_messages answers status 1 exactly when room_id is not in the
\* room directory; for a room of the directory it answers status 0 with the
\* messages of the room, the empty sequence when the room has none, and the
\* answer depends on the stored messages alone, so a repeated call without
\* an append in between answers the same sequence.
C13_InvalidRoomOnlyForUnknownRoom ==
    IsGetMessages =>
        /\ out.resp.status \in {0, 1}
        /\ out.resp.status = 1 <=> out.req.room_id \notin RoomIds
        /\ out.resp.status = 1 => out.resp.msg = "Invalid room ID" /\ out.resp.data = None
        /\ out.resp.status = 0 =>
              /\ out.resp.data = ListByRoom(out.req.room_id, messages)
              /\ (\A i \in 1..Len(messages) : messages[i].room_id # out.req.room_id)
                    <=> out.resp.data = <<>>

\* get_messages answers the empty sequence for a room of the directory
\* while another room has a message
C13_Witness ==
    /\ IsGetMessages
    /\ out.req.room_id \in RoomIds
    /\ out.resp.status = 0
    /\ out.resp.data = <<>>
    /\ messages # <<>>
\* the registry rows owned by the sender of the answered request
SenderRows == {i \in 1..Len(push_tokens) : push_tokens[i].user_id = out.req.sender_id}

\* C14: the destinations of a fan-out are the tokens of all registry rows,
\* whoever owns them: the row of the sender gets its send like any other row,
\* and the tokens sent to are exactly the tokens registered.
C14_SenderNotExcluded ==
    IsFanOut =>
        /\ \A i \in SenderRows :
              /\ i \in 1..Len(out.sent)
              /\ out.sent[i].token = push_tokens[i].token
              /\ out.sent[i].body = out.req.message
        /\ {out.sent[k].token : k \in 1..Len(out.sent)} =
              {push_tokens[i].token : i \in 1..Len(push_tokens)}
        /\ Len(out.sent) = Len(push_tokens)

\* a fan-out over a row of the sender and a row of another user
C14_Witness ==
    /\ IsFanOut
    /\ Len(push_tokens) = 2
    /\ push_tokens[1].user_id = out.req.sender_id
    /\ push_tokens[2].user_id # out.req.sender_id
    /\ push_tokens[1].token # push_tokens[2].token
    /\ Len(out.sent) = 2
    /\ out.sent[1].token = push_tokens[1].token
\* the request r is a submit to a room of the directory whose INSERT this
\* step runs: it adds the one row of r and r goes on to its notifications
InsertsRowOf(r) ==
    /\ r.pc = "smn_insert"
    /\ r.req.op = "send_message_and_notify"
    /\ r.req.room_id \in RoomIds
    /\ Len(messages') = Len(messages) + 1
    /\ Persisted(r.req, Len(messages))'
    /\ \E s \in BagToSet(inflight') :
          /\ s.pc = "smn_notify"
          /\ s.req = r.req
          /\ s.loc.lastrowid = Len(messages) + 1

\* C15: the message store is append-only.  Every step keeps every stored row
\* as it is; a step changes the store only by adding the one row of a submit
\* to a room of the directory, at that submit's INSERT; a step that answers
\* register, login, submit_push_token, get_chat_rooms, get_messages,
\* get_demo or a rejected submit leaves the store unchanged.
C15_MessagesAppendOnly ==
    [][ /\ Len(messages') >= Len(messages)
        /\ \A i \in 1..Len(messages) : messages'[i] = messages[i]
        /\ messages' # messages =>
              /\ \E r \in BagToSet(inflight) : InsertsRowOf(r)
              /\ out' = out
        /\ (out'.op \notin {"none", "send_message_and_notify"}) => messages' = messages
        /\ (out'.op = "send_message_and_notify" /\ out'.lastrowid = 0) =>
              messages' = messages ]_vars

\* a submit to an unknown room is rejected while the store holds a message
C15_Witness ==
    /\ IsSend
    /\ out.resp.kind = "envelope"
    /\ out.resp.status = 1
    /\ out.req.room_id \notin RoomIds
    /\ Len(messages) >= 1
\* the operations whose handler opens a storage connection
OpensConnection ==
    {"register", "login", "submit_push_token", "send_message_and_notify",
     "get_chat_rooms", "get_messages"}

\* C16: every handler that opens a storage connection has closed it when the
\* request ends, on every exit path: the early returns for an unknown room,
\* a token or username that exists and a failed login, and the failure of
\* an INSERT.
C16_ConnectionClosedOnEveryExit ==
    out.op \in OpensConnection => out.conn = "closed"
\* C17: every stored message names a room of the directory, and rooms are
\* isolated: the step that appends a message for room r lengthens
\* listByRoom(r) by that message and leaves listByRoom of every other room
\* as it was.
C17_RoomsIsolated ==
    [][ /\ \A i \in 1..Len(messages') :
              \E k \in 1..Len(chat_rooms') : chat_rooms'[k].id = messages'[i].room_id
        /\ Len(messages') = Len(messages) + 1 =>
              LET new == messages'[Len(messages')]
              IN  /\ ListByRoom(new.room_id, messages') =
                        ListByRoom(new.room_id, Append(messages, new))
                  /\ Len(ListByRoom(new.room_id, messages')) =
                        Len(ListByRoom(new.room_id, messages)) + 1
                  /\ \A other \in RoomIds \ {new.room_id} :
                        ListByRoom(other, messages') = ListByRoom(other, messages) ]_vars

\* two rooms hold one message each and get_messages answers one of them
C17_Witness ==
    /\ IsGetMessages
    /\ out.resp.status = 0
    /\ Len(messages) = 2
    /\ messages[1].room_id # messages[2].room_id
    /\ out.resp.data = <<FormatMessage(messages[2])>>
IsGetChatRooms == out.op = "get_chat_rooms"

\* C18: the room directory is fixed.  After any requests and any re-run of
\* the initialization the rooms are the seeded rooms 1, 2, 3, and
\* get_chat_rooms answers status 0 with these rooms in ascending id order,
\* never the "no rooms" failure.
C18_RoomDirectoryFixed ==
    /\ chat_rooms = SeedRooms
    /\ RoomIds = {1, 2, 3}
    /\ IsGetChatRooms =>
          /\ out.resp.status = 0
          /\ out.resp.msg # "No chat rooms found"
          /\ Len(out.resp.data) = 3
          /\ \A i \in 1..3 :
                out.resp.data[i] = [room_id |-> i, name |-> SeedRooms[i].name]
          /\ \A i, j \in 1..Len(out.resp.data) :
                i < j => out.resp.data[i].room_id < out.resp.data[j].room_id

\* get_chat_rooms answers once users, tokens and messages have been stored
C18_Witness ==
    /\ IsGetChatRooms
    /\ out.resp.status = 0
    /\ Len(out.resp.data) = 3
    /\ users # <<>>
    /\ push_tokens # <<>>
    /\ messages # <<>>
====
